---- MODULE Spec2Model ----
(***************************************************************************)
(* Stroke risk assessment web application: the feature engineers           *)
(* (feature_engineering_exact.py, feature_engineering.py), the risk        *)
(* predictor (model_handler.py), the input validator (input_validation.py) *)
(* and the Streamlit session around them (app.py, pages/*.py).             *)
(*                                                                         *)
(* Number representation.  Python floats are modelled in fixed point:      *)
(*   - the numeric fields of a patient record (age, bmi,                   *)
(*     avg_glucose_level) are integers in TENTHS (age 65 is 650);          *)
(*   - feature values are integers in HUNDREDTHS (2.0 is 200), which holds *)
(*     every product and quotient of the feature table exactly;            *)
(*   - probabilities are integers in units of 10^-7 (0.10 is 1000000);     *)
(*   - raw importance weights are integers in units of 1/2000, and a       *)
(*     normalised weight v/total is the exact fraction <<v, total>>.       *)
(***************************************************************************)
EXTENDS Integers, Sequences, FiniteSets, TLC

VARIABLES
    probability,      \* argument of _classify_risk
    risk_level,       \* its return value
    patient_data,     \* argument record of validate / engineer / importance
    validation,       \* return value of validate_prediction_inputs
    features,         \* feature_engineering_exact.engineer_features(patient_data)
    features_df,      \* feature_engineering_exact.create_feature_dataframe(patient_data)
    features_27,      \* feature_engineering.engineer_features(patient_data)
    feature_importance, \* _get_feature_importance(..., patient_data)
    features_valid,   \* validate_features(features)
    modifiable_shown, \* the 'Modifiable Risk Factors n/3' count of the results page
    model,            \* ModelHandler.model: None or the loaded artifact
    handler_cached,   \* st.cache_resource holds the ModelHandler
    scored,           \* the artifact as a fixed function: feature vector -> answer
    session_state,    \* st.session_state
    page,             \* the page the session shows
    submitted,        \* the record the form submission of this script run built
    model_input,      \* the DataFrame this script run handed to model.predict_proba
    outcome,          \* what predict_stroke_risk did in this script run
    returned,         \* history: record -> the first result predict returned for it
    repeat_call,      \* this script run predicted a record predicted before, while
                      \* the session held the result of another record
    rendered          \* the result content the last script run put on the page

vars == <<probability, risk_level, patient_data, validation, features,
          features_df, features_27, feature_importance, features_valid,
          modifiable_shown, model, handler_cached,
          scored, session_state, page, submitted, model_input, outcome, returned,
          repeat_call, rendered>>

\* Python's None, and a value that is present
None == <<>>
Some(v) == <<v>>
Val(x) == x[1]

\* ------------------------------------------------------------------------
\* Fixed-point helpers
\* ------------------------------------------------------------------------

\* one unit of probability is 10^-7
ProbScale == 10 ^ 7

\* a whole number n (an int, or a float with no fraction) as hundredths
Whole(n) == n * 100

\* int(x) in place of float(x): the fraction is dropped
Float_as_int(tenths) == (tenths \div 10) * 100

\* float(x) of a field held in tenths, as hundredths
Float(tenths) == tenths * 10

\* the product of the whole parts only
Mul_whole(a, b) == ((a \div 100) * (b \div 100)) * 100

\* the product of two values held in hundredths
Mul(a, b) == (a * b) \div 100

\* dict.get(key, default)
Get(d, key, default) == IF key \in DOMAIN d THEN d[key] ELSE default

\* the elements of a list
Elems(seq) == {seq[i] : i \in 1..Len(seq)}

\* the value a row holds under a column name
ValueAt(names, row, name) ==
    row[CHOOSE i \in 1..Len(names) : names[i] = name]

\* features_df.iloc[0].to_dict()
RowDict(df) ==
    [name \in Elems(df.columns) |-> ValueAt(df.columns, df.row, name)]

RECURSIVE SumSeq(_)
SumSeq(s) == IF s = <<>> THEN 0 ELSE Head(s) + SumSeq(Tail(s))

\* ------------------------------------------------------------------------
\* ModelHandler._classify_risk
\* ------------------------------------------------------------------------

classify_risk_boundary_low(p) ==
    IF p <= ProbScale \div 10 THEN "Low Risk"
    ELSE IF p < (3 * ProbScale) \div 10 THEN "Moderate Risk"
    ELSE IF p < (6 * ProbScale) \div 10 THEN "High Risk"
    ELSE "Very High Risk"

_classify_risk(p) ==
    IF p < ProbScale \div 10 THEN "Low Risk"
    ELSE IF p < (3 * ProbScale) \div 10 THEN "Moderate Risk"
    ELSE IF p < (6 * ProbScale) \div 10 THEN "High Risk"
    ELSE "Very High Risk"

\* ------------------------------------------------------------------------
\* ModelHandler.validate_prediction_inputs
\* ------------------------------------------------------------------------

required_fields ==
    <<"age", "gender", "hypertension", "heart_disease", "ever_married",
      "work_type", "Residence_type", "avg_glucose_level", "bmi",
      "smoking_status">>

\* an entry of the error list; a missing-field message carries its field
Msg(text, field) == [text |-> text, field |-> field]

RECURSIVE MissingErrors(_, _)
MissingErrors(fields, d) ==
    IF fields = <<>> THEN <<>>
    ELSE (IF Head(fields) \notin DOMAIN d
             THEN <<Msg("Missing required field", Head(fields))>>
             ELSE <<>>)
         \o MissingErrors(Tail(fields), d)

\* one "if field in patient_data: if not <ok>: errors.append(text)" block
Check(d, field, ok, text) ==
    IF field \in DOMAIN d /\ ~ok THEN <<Msg(text, field)>> ELSE <<>>

validation_errors_exclusive_bounds(d) ==
    MissingErrors(required_fields, d)
    \o Check(d, "age", 180 < Get(d, "age", 0) /\ Get(d, "age", 0) <= 1200,
             "Age must be between 18 and 120 years")
    \o Check(d, "bmi", 100 <= Get(d, "bmi", 0) /\ Get(d, "bmi", 0) < 700,
             "BMI must be between 10.0 and 70.0")
    \o Check(d, "avg_glucose_level",
             500 <= Get(d, "avg_glucose_level", 0)
                /\ Get(d, "avg_glucose_level", 0) < 4000,
             "Glucose level must be between 50.0 and 400.0 mg/dL")
    \o Check(d, "gender", Get(d, "gender", "") \in {"Male", "Female"},
             "Gender must be 'Male' or 'Female'")
    \o Check(d, "ever_married", Get(d, "ever_married", "") \in {"Yes", "No"},
             "Ever married must be 'Yes' or 'No'")
    \o Check(d, "hypertension", Get(d, "hypertension", 0) \in {0, 1},
             "Hypertension must be 0 or 1")
    \o Check(d, "heart_disease", Get(d, "heart_disease", 0) \in {0, 1},
             "Heart disease must be 0 or 1")

\* the body of validate_prediction_inputs up to its return: the error list
validation_errors(d) ==
    MissingErrors(required_fields, d)
    \o Check(d, "age", 180 <= Get(d, "age", 0) /\ Get(d, "age", 0) <= 1200,
             "Age must be between 18 and 120 years")
    \o Check(d, "bmi", 100 <= Get(d, "bmi", 0) /\ Get(d, "bmi", 0) <= 700,
             "BMI must be between 10.0 and 70.0")
    \o Check(d, "avg_glucose_level",
             500 <= Get(d, "avg_glucose_level", 0)
                /\ Get(d, "avg_glucose_level", 0) <= 4000,
             "Glucose level must be between 50.0 and 400.0 mg/dL")
    \o Check(d, "gender", Get(d, "gender", "") \in {"Male", "Female"},
             "Gender must be 'Male' or 'Female'")
    \o Check(d, "ever_married", Get(d, "ever_married", "") \in {"Yes", "No"},
             "Ever married must be 'Yes' or 'No'")
    \o Check(d, "hypertension", Get(d, "hypertension", 0) \in {0, 1},
             "Hypertension must be 0 or 1")
    \o Check(d, "heart_disease", Get(d, "heart_disease", 0) \in {0, 1},
             "Heart disease must be 0 or 1")

validate_fail_fast(d) ==
    LET errors == validation_errors(d)
        first == IF errors = <<>> THEN <<>> ELSE <<Head(errors)>>
    IN  [ok |-> Len(first) = 0, errors |-> first]

\* the list built by prepending each message
validate_newest_first(d) ==
    LET errors == validation_errors(d)
    IN  [ok |-> Len(errors) = 0,
         errors |-> [i \in 1..Len(errors) |-> errors[Len(errors) + 1 - i]]]

validate_prediction_inputs(d) ==
    LET errors == validation_errors(d)
    IN  [ok |-> Len(errors) = 0, errors |-> errors]

\* ------------------------------------------------------------------------
\* feature_engineering_exact.FixedFeatureEngineer
\* ------------------------------------------------------------------------

\* a name table whose last name no dictionary of the engineer has
feature_names_unmapped ==
    <<"age_diabetes", "cv_risk_count", "age_decade", "work_stress_level",
      "hypertension_elderly", "high_stress_work", "hypertension", "married",
      "male_age_interaction", "bmi_hypertension", "age_hypertension_diabetes",
      "bmi_glucose", "heart_disease", "bmi", "age_high_risk",
      "glucose_heart_disease", "avg_glucose_level", "gender_female",
      "female_elderly", "age_hypertension", "age_obesity", "age",
      "gender_male", "gender_Other", "modifiable_risk_count", "bmi_obesity">>

\* self.feature_names, set by __init__
feature_names ==
    <<"age_diabetes", "cv_risk_count", "age_decade", "work_stress_level",
      "hypertension_elderly", "high_stress_work", "hypertension", "married",
      "male_age_interaction", "bmi_hypertension", "age_hypertension_diabetes",
      "bmi_glucose", "heart_disease", "bmi", "age_high_risk",
      "glucose_heart_disease", "avg_glucose_level", "gender_female",
      "female_elderly", "age_hypertension", "age_obesity", "age",
      "gender_male", "gender_Other", "modifiable_risk_count", "bmi_diabetes">>

\* the local list of create_feature_dataframe
expected_feature_order ==
    <<"age_diabetes", "cv_risk_count", "age_decade", "work_stress_level",
      "hypertension_elderly", "high_stress_work", "hypertension", "married",
      "male_age_interaction", "bmi_hypertension", "age_hypertension_diabetes",
      "bmi_glucose", "heart_disease", "bmi", "age_high_risk",
      "glucose_heart_disease", "avg_glucose_level", "gender_female",
      "female_elderly", "age_hypertension", "age_obesity", "age",
      "gender_male", "modifiable_risk_count", "bmi_diabetes",
      "gender_Male", "gender_Other">>

\* 'never' in s, 'formerly' in s, 'smokes' in s over the statuses in use
ContainsNever(s) == s \in {"never_smoked", "never smoked"}
ContainsFormerly(s) == s \in {"formerly_smoked", "formerly smoked"}
ContainsSmokes(s) == s \in {"smokes", "currently_smokes"}

Bit(b) == IF b THEN 1 ELSE 0

\* the dictionary feature_mapping built by engineer_features
feature_mapping(d) ==
    LET age == Float(Get(d, "age", 500))
        hypertension == Get(d, "hypertension", 0)
        heart_disease == Get(d, "heart_disease", 0)
        avg_glucose_level == Float(Get(d, "avg_glucose_level", 1000))
        bmi == Float(Get(d, "bmi", 250))
        gender == Get(d, "gender", "Male")
        gender_male == Bit(gender = "Male")
        gender_female == Bit(gender = "Female")
        ever_married == Get(d, "ever_married", "Yes")
        married == Bit(ever_married = "Yes")
        work_type == Get(d, "work_type", "Private")
        residence_type == Get(d, "Residence_type", "Urban")
        smoking_status == Get(d, "smoking_status", "never_smoked")
        diabetes_indicator == Bit(avg_glucose_level > Whole(125))
        elderly_indicator == Bit(age >= Whole(65))
        obesity_indicator == Bit(bmi >= Whole(30))
    IN  ("age" :> age)
        @@ ("hypertension" :> Whole(hypertension))
        @@ ("heart_disease" :> Whole(heart_disease))
        @@ ("avg_glucose_level" :> avg_glucose_level)
        @@ ("bmi" :> bmi)
        @@ ("gender_male" :> Whole(Bit(gender = "Male")))
        @@ ("gender_female" :> Whole(Bit(gender = "Female")))
        @@ ("gender_Male" :> Whole(Bit(gender = "Male")))
        @@ ("gender_Female" :> Whole(Bit(gender = "Female")))
        @@ ("gender_Other" :> Whole(Bit(gender \notin {"Male", "Female"})))
        @@ ("married" :> Whole(married))
        @@ ("ever_married_Yes" :> Whole(married))
        @@ ("ever_married_No" :> Whole(1 - married))
        @@ ("work_type_Private" :> Whole(Bit(work_type = "Private")))
        @@ ("work_type_Self-employed" :> Whole(Bit(work_type = "Self-employed")))
        @@ ("work_type_Govt_job" :> Whole(Bit(work_type = "Govt_job")))
        @@ ("work_type_children" :> Whole(Bit(work_type = "children")))
        @@ ("work_type_Never_worked" :> Whole(Bit(work_type = "Never_worked")))
        @@ ("Residence_type_Urban" :> Whole(Bit(residence_type = "Urban")))
        @@ ("Residence_type_Rural" :> Whole(Bit(residence_type = "Rural")))
        @@ ("smoking_status_never smoked" :> Whole(Bit(ContainsNever(smoking_status))))
        @@ ("smoking_status_formerly smoked"
                :> Whole(Bit(ContainsFormerly(smoking_status))))
        @@ ("smoking_status_smokes" :> Whole(Bit(smoking_status = "smokes")))
        @@ ("smoking_status_Unknown" :> Whole(Bit(smoking_status = "Unknown")))
        @@ ("age_decade" :> age \div 10)
        @@ ("age_high_risk" :> Whole(elderly_indicator))
        @@ ("age_squared" :> Mul(age, age))
        @@ ("cv_risk_count"
                :> Whole(hypertension + heart_disease + diabetes_indicator
                         + obesity_indicator))
        @@ ("modifiable_risk_count"
                :> Whole(hypertension + diabetes_indicator + obesity_indicator))
        @@ ("hypertension_elderly" :> Whole(hypertension * elderly_indicator))
        @@ ("female_elderly" :> Whole(gender_female * elderly_indicator))
        @@ ("male_elderly" :> Whole(gender_male * elderly_indicator))
        @@ ("male_age_interaction" :> gender_male * age)
        @@ ("female_age_interaction" :> gender_female * age)
        @@ ("age_hypertension" :> age * hypertension)
        @@ ("age_heart_disease" :> age * heart_disease)
        @@ ("bmi_hypertension" :> bmi * hypertension)
        @@ ("bmi_heart_disease" :> bmi * heart_disease)
        @@ ("glucose_heart_disease" :> avg_glucose_level * heart_disease)
        @@ ("glucose_hypertension" :> avg_glucose_level * hypertension)
        @@ ("age_hypertension_diabetes" :> age * hypertension * diabetes_indicator)
        @@ ("bmi_glucose" :> Mul(bmi, avg_glucose_level))
        @@ ("age_obesity" :> age * obesity_indicator)
        @@ ("bmi_diabetes" :> bmi * diabetes_indicator)
        @@ ("age_diabetes" :> age * diabetes_indicator)
        @@ ("bmi_normal" :> Whole(Bit(1850 <= bmi /\ bmi < Whole(25))))
        @@ ("bmi_overweight" :> Whole(Bit(Whole(25) <= bmi /\ bmi < Whole(30))))
        @@ ("bmi_obese" :> Whole(Bit(bmi >= Whole(30))))
        @@ ("bmi_underweight" :> Whole(Bit(bmi < 1850)))
        @@ ("glucose_normal" :> Whole(Bit(avg_glucose_level < Whole(100))))
        @@ ("glucose_prediabetic"
                :> Whole(Bit(Whole(100) <= avg_glucose_level
                             /\ avg_glucose_level <= Whole(125))))
        @@ ("glucose_diabetic" :> Whole(Bit(avg_glucose_level > Whole(125))))
        @@ ("age_young" :> Whole(Bit(age < Whole(45))))
        @@ ("age_middle" :> Whole(Bit(Whole(45) <= age /\ age < Whole(65))))
        @@ ("age_elderly" :> Whole(Bit(age >= Whole(65))))
        @@ ("work_stress_level" :> 200)
        @@ ("high_stress_work" :> 0)
        @@ ("age_bmi_interaction" :> Mul(age, bmi))
        @@ ("glucose_age_interaction" :> Mul(avg_glucose_level, age))
        @@ ("hypertension_heart_disease" :> Whole(hypertension * heart_disease))
        \* the two scores below are rounded down to hundredths; no schema names them
        @@ ("cardiovascular_risk_score"
                :> age \div 10 + Whole(hypertension * 2 + heart_disease * 3
                                       + diabetes_indicator * 2))
        @@ ("metabolic_risk_score"
                :> bmi \div 5 + avg_glucose_level \div 50
                   + Whole(diabetes_indicator * 3))

\* the loop "for feature_name in <schema>: if feature_name in <mapping> ...
\* else ... append(0.0)" shared by engineer_features and
\* create_feature_dataframe
SelectInOrder(schema, mapping) ==
    [i \in 1..Len(schema) |->
        IF schema[i] \in DOMAIN mapping THEN mapping[schema[i]] ELSE 0]

\* the list without its first entry
engineer_features_short(d) == SelectInOrder(Tail(feature_names), feature_mapping(d))

\* engineer_features: the list of values in feature_names order
engineer_features(d) == SelectInOrder(feature_names, feature_mapping(d))

\* the dictionary returned by get_all_features
get_all_features(d) ==
    LET age == Float(Get(d, "age", 650))
        gender == Get(d, "gender", "Male")
        hypertension == Get(d, "hypertension", 0)
        heart_disease == Get(d, "heart_disease", 0)
        ever_married == Get(d, "ever_married", "Yes")
        avg_glucose_level == Float(Get(d, "avg_glucose_level", 1000))
        bmi == Float(Get(d, "bmi", 250))
        diabetes_indicator == Bit(avg_glucose_level > Whole(125))
        elderly_indicator == Bit(age >= Whole(65))
        obesity_indicator == Bit(bmi >= Whole(30))
        gender_male == Bit(gender = "Male")
        gender_female == Bit(gender = "Female")
        gender_Male == Bit(gender = "Male")
        gender_Other == Bit(gender \notin {"Male", "Female"})
        married == Bit(ever_married = "Yes")
    IN  ("age" :> age)
        @@ ("hypertension" :> Whole(hypertension))
        @@ ("heart_disease" :> Whole(heart_disease))
        @@ ("avg_glucose_level" :> avg_glucose_level)
        @@ ("bmi" :> bmi)
        @@ ("gender_male" :> Whole(gender_male))
        @@ ("gender_Male" :> Whole(gender_Male))
        @@ ("gender_female" :> Whole(gender_female))
        @@ ("gender_Other" :> Whole(gender_Other))
        @@ ("married" :> Whole(married))
        @@ ("age_decade" :> age \div 10)
        @@ ("age_high_risk" :> Whole(elderly_indicator))
        @@ ("cv_risk_count"
                :> Whole(hypertension + heart_disease + diabetes_indicator
                         + obesity_indicator))
        @@ ("modifiable_risk_count"
                :> Whole(hypertension + diabetes_indicator + obesity_indicator))
        @@ ("hypertension_elderly" :> Whole(hypertension * elderly_indicator))
        @@ ("female_elderly" :> Whole(gender_female * elderly_indicator))
        @@ ("male_age_interaction" :> gender_male * age)
        @@ ("age_hypertension" :> age * hypertension)
        @@ ("bmi_hypertension" :> bmi * hypertension)
        @@ ("glucose_heart_disease" :> avg_glucose_level * heart_disease)
        @@ ("age_hypertension_diabetes" :> age * hypertension * diabetes_indicator)
        @@ ("bmi_glucose" :> Mul(bmi, avg_glucose_level))
        @@ ("age_obesity" :> age * obesity_indicator)
        @@ ("bmi_diabetes" :> bmi * diabetes_indicator)
        @@ ("age_diabetes" :> age * diabetes_indicator)
        @@ ("work_stress_level" :> 200)
        @@ ("high_stress_work" :> 0)

\* a frame whose high_stress_work column follows the smoking status
create_feature_dataframe_smoker(d) ==
    [columns |-> expected_feature_order,
     row |-> SelectInOrder(
                 expected_feature_order,
                 ("high_stress_work"
                     :> Whole(Bit(ContainsSmokes(Get(d, "smoking_status", "")))))
                 @@ get_all_features(d))]

\* an engineer that keeps the patient of the previous prediction
create_feature_dataframe_stale(d) ==
    LET kept == IF session_state.patient_data # None
                   THEN Val(session_state.patient_data) ELSE d
    IN  [columns |-> expected_feature_order,
         row |-> SelectInOrder(expected_feature_order, get_all_features(kept))]

\* the row selected in the order of the other name table
create_feature_dataframe_wrong_order(d) ==
    [columns |-> expected_feature_order,
     row |-> SelectInOrder(feature_names \o <<"gender_Male">>, get_all_features(d))]

\* create_feature_dataframe: a one-row DataFrame, its columns and its row
create_feature_dataframe(d) ==
    [columns |-> expected_feature_order,
     row |-> SelectInOrder(expected_feature_order, get_all_features(d))]

\* np.isnan(f): a NaN is the one value that differs from itself
np_isnan(f) == f # f

\* np.isinf(f): an infinity is the non-zero value that doubling leaves as is
np_isinf(f) == f # 0 /\ f + f = f

\* validate_features: the count matches feature_names and no entry is NaN
\* or infinite
validate_features(fs) ==
    /\ Len(fs) = Len(feature_names)
    /\ \A i \in 1..Len(fs) : ~(np_isnan(fs[i]) \/ np_isinf(fs[i]))

\* ------------------------------------------------------------------------
\* feature_engineering.FixedFeatureEngineer (the 27-entry list variant)
\* ------------------------------------------------------------------------

\* self.feature_names of feature_engineering.FixedFeatureEngineer
fe_feature_names ==
    <<"age", "hypertension", "heart_disease", "avg_glucose_level", "bmi",
      "gender_Male", "gender_female", "married",
      "age_decade", "age_high_risk", "cv_risk_count",
      "hypertension_elderly", "female_elderly", "male_age_interaction",
      "age_hypertension", "bmi_hypertension", "glucose_heart_disease",
      "age_hypertension_diabetes", "bmi_glucose", "age_obesity",
      "bmi_diabetes", "age_diabetes", "modifiable_risk_count",
      "work_stress_level", "high_stress_work", "gender_Male", "gender_Other">>

\* feature_engineering.engineer_features: the list, or "ValueError" when its
\* length differs from the name table's
fe_engineer_features(d) ==
    LET age == Float(Get(d, "age", 500))
        hypertension == Get(d, "hypertension", 0)
        heart_disease == Get(d, "heart_disease", 0)
        avg_glucose_level == Float(Get(d, "avg_glucose_level", 1000))
        bmi == Float(Get(d, "bmi", 250))
        gender == Get(d, "gender", "Male")
        gender_Male == Bit(gender = "Male")
        gender_female == Bit(gender = "Female")
        gender_Other == 0
        ever_married == Get(d, "ever_married", "Yes")
        married == Bit(ever_married = "Yes")
        diabetes_indicator == Bit(avg_glucose_level > Whole(125))
        elderly_indicator == Bit(age >= Whole(65))
        obesity_indicator == Bit(bmi >= Whole(30))
        list ==
            << age,
               Whole(hypertension),
               Whole(heart_disease),
               avg_glucose_level,
               bmi,
               Whole(gender_Male),
               Whole(gender_female),
               Whole(married),
               age \div 10,
               Whole(elderly_indicator),
               Whole(hypertension + heart_disease + diabetes_indicator
                     + obesity_indicator),
               Whole(hypertension * elderly_indicator),
               Whole(gender_female * elderly_indicator),
               gender_Male * age,
               age * hypertension,
               bmi * hypertension,
               avg_glucose_level * heart_disease,
               age * hypertension * diabetes_indicator,
               Mul(bmi, avg_glucose_level),
               age * obesity_indicator,
               bmi * diabetes_indicator,
               age * diabetes_indicator,
               Whole(hypertension + diabetes_indicator + obesity_indicator),
               200,
               0,
               Whole(gender_Male),
               Whole(gender_Other) >>
    IN  IF Len(list) # Len(fe_feature_names) THEN "ValueError" ELSE list

\* ------------------------------------------------------------------------
\* ModelHandler._get_feature_importance (weights in units of 1/2000)
\* ------------------------------------------------------------------------

Min(a, b) == IF a <= b THEN a ELSE b

importance_keys ==
    <<"age", "hypertension", "heart_disease", "avg_glucose_level", "bmi",
      "smoking_status", "gender", "ever_married">>

\* the dictionary feature_weights before normalisation
raw_feature_weights(d) ==
    LET age == Get(d, "age", 500)
        hypertension == Get(d, "hypertension", 0)
        heart_disease == Get(d, "heart_disease", 0)
        avg_glucose_level == Get(d, "avg_glucose_level", 1000)
        bmi == Get(d, "bmi", 250)
        smoking_status == Get(d, "smoking_status", "never_smoked")
        gender == Get(d, "gender", "Male")
        ever_married == Get(d, "ever_married", "Yes")
    IN  [age |-> Min(2 * age, 700),
         hypertension |-> IF hypertension = 1 THEN 300 ELSE 0,
         heart_disease |-> IF heart_disease = 1 THEN 400 ELSE 0,
         avg_glucose_level |-> Min(avg_glucose_level, 500),
         bmi |-> IF bmi > 300 THEN 300 ELSE IF bmi > 250 THEN 200 ELSE 100,
         smoking_status |-> IF ContainsSmokes(smoking_status) THEN 300
                            ELSE IF ContainsFormerly(smoking_status) THEN 100
                            ELSE 0,
         gender |-> IF gender = "Male" THEN 100 ELSE 40,
         ever_married |-> IF ever_married = "Yes" THEN 60 ELSE 0]

SumWeights(w) == SumSeq([i \in 1..Len(importance_keys) |-> w[importance_keys[i]]])

\* a weight as the exact fraction num/den
Frac(num, den) == [num |-> num, den |-> den]

get_feature_importance_partial_total(features_dict, d) ==
    LET feature_weights == raw_feature_weights(d)
        total_weight == SumWeights(feature_weights) - feature_weights["ever_married"]
    IN  IF total_weight > 0
           THEN [k \in DOMAIN feature_weights |->
                    Frac(feature_weights[k], total_weight)]
           ELSE [k \in DOMAIN feature_weights |-> Frac(feature_weights[k], 2000)]

_get_feature_importance(features_dict, d) ==
    LET feature_weights == raw_feature_weights(d)
        total_weight == SumWeights(feature_weights)
    IN  IF total_weight > 0
           THEN [k \in DOMAIN feature_weights |->
                    Frac(feature_weights[k], total_weight)]
           ELSE [k \in DOMAIN feature_weights |-> Frac(feature_weights[k], 2000)]

\* ------------------------------------------------------------------------
\* Inputs of the pure functions
\* ------------------------------------------------------------------------

\* how many points the probability grid has besides the band edges
GridSteps == 100

\* how many fields an input record may lack
MaxMissing == 1

ProbValues ==
    {(k * ProbScale) \div GridSteps : k \in 0..GridSteps}
    \cup {0, 999999, 1000000, 2999999, 3000000, 5999999, 6000000, ProbScale}

Drop(d, S) == [k \in DOMAIN d \ S |-> d[k]]

Lacking(records, fields) ==
    {Drop(d, S) : d \in records,
                  S \in {T \in SUBSET fields : Cardinality(T) <= MaxMissing}}

AllFields == {required_fields[i] : i \in 1..Len(required_fields)}

\* records around the accepted ranges, with values validate must reject
ValidateRecords ==
    Lacking([age : {150, 180, 1200, 1201},
             gender : {"Male", "Female", "Other"},
             hypertension : {0, 1, 2},
             heart_disease : {0, 1, 2},
             ever_married : {"Yes", "No", "Maybe"},
             work_type : {"Private"},
             Residence_type : {"Urban"},
             avg_glucose_level : {100, 500, 4000, 4001},
             bmi : {50, 100, 700, 701},
             smoking_status : {"never_smoked"}],
            AllFields)

\* records around the indicator thresholds (65 years, 125 mg/dL, bmi 30)
FeatureRecords ==
    Lacking([age : {640, 650, 770},
             gender : {"Male", "Female", "Other"},
             hypertension : {0, 1},
             heart_disease : {0, 1},
             ever_married : {"Yes", "No"},
             work_type : {"Private"},
             Residence_type : {"Urban"},
             avg_glucose_level : {1250, 1251, 1500},
             bmi : {299, 300, 320},
             smoking_status : {"never_smoked"}],
            {"age", "gender", "hypertension", "heart_disease", "ever_married",
             "avg_glucose_level", "bmi"})

\* records validate accepts, around the steps of the weight formulas
ImportanceRecords ==
    [age : {180, 340, 350, 360, 1200},
     gender : {"Male", "Female"},
     hypertension : {0, 1},
     heart_disease : {0, 1},
     ever_married : {"Yes", "No"},
     work_type : {"Private"},
     Residence_type : {"Urban"},
     avg_glucose_level : {500, 4000},
     bmi : {100, 250, 251, 300, 301, 700},
     smoking_status : {"never_smoked", "formerly_smoked", "currently_smokes",
                       "unknown"}]

\* ------------------------------------------------------------------------
\* State shared by the specifications
\* ------------------------------------------------------------------------

\* 'Low' in s, 'Moderate' in s, 'High Risk' in s, 'Very High' in s over the
\* four tier names
ContainsLow(s) == s = "Low Risk"
ContainsModerate(s) == s = "Moderate Risk"
ContainsHighRisk(s) == s \in {"High Risk", "Very High Risk"}
ContainsVeryHigh(s) == s = "Very High Risk"

\* the list patient_data of the population comparison chart
population_marker(risk_level_) ==
    IF ContainsLow(risk_level_) THEN <<100, 0, 0, 0>>
    ELSE IF ContainsModerate(risk_level_) THEN <<0, 100, 0, 0>>
    ELSE IF ContainsHighRisk(risk_level_) THEN <<0, 0, 100, 0>>
    ELSE IF ContainsVeryHigh(risk_level_) THEN <<0, 0, 0, 100>>
    ELSE <<0, 0, 0, 0>>

\* display_risk_analysis: the count n of 'Modifiable Risk Factors n/3', from
\* the stored patient record (fields in tenths)
modifiable_count(patient) ==
    (IF Get(patient, "hypertension", 0) # 0 THEN 1 ELSE 0)
    + (IF Get(patient, "avg_glucose_level", 0) > 1250 THEN 1 ELSE 0)
    + (IF Get(patient, "bmi", 0) >= 300 THEN 1
       ELSE IF Get(patient, "bmi", 0) >= 250 THEN 1 ELSE 0)

\* a script run that puts no result content on the page
NothingShown == [result |-> None, banner |-> FALSE, marker |-> None]

\* the results page: the guard and the integrity checks of main, then the
\* summary, the analysis and the chart of display_risk_factors
RenderResults(ss) ==
    IF ss.prediction_results = None THEN NothingShown
    ELSE IF "probability_percent" \notin DOMAIN Val(ss.prediction_results)
            \/ "risk_level" \notin DOMAIN Val(ss.prediction_results)
       THEN NothingShown
    ELSE [result |-> ss.prediction_results,
          banner |-> FALSE,
          marker |-> IF ss.patient_data = None THEN None
                     ELSE Some(population_marker(
                                  Val(ss.prediction_results).risk_level))]

\* the assessment page below its form: 'Risk assessment completed!' and
\* 'View Detailed Results'; not reached when the submit handler returned early
RenderAssessment(ss, early_return) ==
    IF ~early_return /\ ss.prediction_results # None
       THEN [result |-> ss.prediction_results, banner |-> TRUE, marker |-> None]
       ELSE NothingShown

\* the main page: 'Prediction Available' with the risk in the sidebar
RenderApp(ss) ==
    IF ss.prediction_results # None
       THEN [result |-> ss.prediction_results, banner |-> FALSE, marker |-> None]
       ELSE NothingShown

\* what the script run of a page puts on the screen
Render(pg, ss, early_return) ==
    CASE pg = "results" -> RenderResults(ss)
      [] pg = "risk_assessment" -> RenderAssessment(ss, early_return)
      [] pg = "app" -> RenderApp(ss)
      [] OTHER -> NothingShown

NoSession ==
    [prediction_results |-> None, patient_data |-> None, model_loaded |-> FALSE]

\* an initialisation that assigns the defaults whatever the session holds
session_init_unconditional(ss) == NoSession

\* the start-up code of app.py: a default for each session variable that is
\* absent
session_init(ss) ==
    [k \in {"prediction_results", "patient_data", "model_loaded"} |->
        IF k \in DOMAIN ss THEN ss[k] ELSE NoSession[k]]

CoreIdle ==
    /\ probability = 0
    /\ risk_level = None
    /\ patient_data = None
    /\ validation = None
    /\ features = None
    /\ features_df = None
    /\ features_27 = None
    /\ feature_importance = None
    /\ features_valid = None
    /\ modifiable_shown = None

SessionIdle ==
    /\ model = None
    /\ handler_cached = FALSE
    /\ scored = <<>>
    /\ session_state = NoSession
    /\ page = "app"
    /\ submitted = None
    /\ model_input = None
    /\ outcome = "none"
    /\ returned = <<>>
    /\ repeat_call = FALSE
    /\ rendered = NothingShown

coreVars == <<probability, risk_level, patient_data, validation, features,
              features_df, features_27, feature_importance, features_valid,
              modifiable_shown>>

sessionVars == <<model, handler_cached, scored, session_state, page, submitted,
                 model_input, outcome, returned, repeat_call, rendered>>

\* ------------------------------------------------------------------------
\* SpecClassify: _classify_risk applied to a probability
\* ------------------------------------------------------------------------

ClassifyRisk ==
    /\ risk_level = None
    /\ risk_level' = Some(_classify_risk(probability))
    /\ UNCHANGED <<probability, patient_data, validation, features, features_df,
                   features_27, feature_importance>>
    /\ UNCHANGED <<features_valid, modifiable_shown>>
    /\ UNCHANGED sessionVars

InitClassify ==
    /\ probability \in ProbValues
    /\ risk_level = None
    /\ patient_data = None
    /\ validation = None
    /\ features = None
    /\ features_df = None
    /\ features_27 = None
    /\ feature_importance = None
    /\ features_valid = None
    /\ modifiable_shown = None
    /\ SessionIdle

NextClassify == ClassifyRisk

SpecClassify == InitClassify /\ [][NextClassify]_vars

\* ------------------------------------------------------------------------
\* SpecValidate: validate_prediction_inputs applied to a record
\* ------------------------------------------------------------------------

\* a validate that writes the default of a missing field into the record
ValidatePredictionInputs_filling ==
    /\ patient_data # None
    /\ validation = None
    /\ validation' = Some(validate_prediction_inputs(Val(patient_data)))
    /\ patient_data' =
          Some([k \in DOMAIN Val(patient_data) \cup {"bmi"} |->
                   Get(Val(patient_data), k, 250)])
    /\ UNCHANGED <<probability, risk_level, features, features_df,
                   features_27, feature_importance, features_valid,
                   modifiable_shown>>
    /\ UNCHANGED sessionVars

ValidatePredictionInputs ==
    /\ patient_data # None
    /\ validation = None
    /\ validation' = Some(validate_prediction_inputs(Val(patient_data)))
    /\ UNCHANGED <<probability, risk_level, patient_data, features, features_df,
                   features_27, feature_importance>>
    /\ UNCHANGED <<features_valid, modifiable_shown>>
    /\ UNCHANGED sessionVars

InitValidate ==
    /\ probability = 0
    /\ risk_level = None
    /\ patient_data \in {Some(d) : d \in ValidateRecords}
    /\ validation = None
    /\ features = None
    /\ features_df = None
    /\ features_27 = None
    /\ feature_importance = None
    /\ features_valid = None
    /\ modifiable_shown = None
    /\ SessionIdle

NextValidate == ValidatePredictionInputs

SpecValidate == InitValidate /\ [][NextValidate]_vars

\* ------------------------------------------------------------------------
\* Claims about _classify_risk and validate_prediction_inputs
\* ------------------------------------------------------------------------

ViolatedConstraints(d) ==
    {Msg("Missing required field", f) : f \in AllFields \ DOMAIN d}
    \cup (IF "age" \in DOMAIN d /\ (d.age < 180 \/ d.age > 1200)
             THEN {Msg("Age must be between 18 and 120 years", "age")} ELSE {})
    \cup (IF "bmi" \in DOMAIN d /\ (d.bmi < 100 \/ d.bmi > 700)
             THEN {Msg("BMI must be between 10.0 and 70.0", "bmi")} ELSE {})
    \cup (IF "avg_glucose_level" \in DOMAIN d
              /\ (d.avg_glucose_level < 500 \/ d.avg_glucose_level > 4000)
             THEN {Msg("Glucose level must be between 50.0 and 400.0 mg/dL",
                       "avg_glucose_level")}
             ELSE {})
    \cup (IF "gender" \in DOMAIN d /\ d.gender # "Male" /\ d.gender # "Female"
             THEN {Msg("Gender must be 'Male' or 'Female'", "gender")} ELSE {})
    \cup (IF "ever_married" \in DOMAIN d /\ d.ever_married # "Yes"
              /\ d.ever_married # "No"
             THEN {Msg("Ever married must be 'Yes' or 'No'", "ever_married")}
             ELSE {})
    \cup (IF "hypertension" \in DOMAIN d /\ d.hypertension # 0 /\ d.hypertension # 1
             THEN {Msg("Hypertension must be 0 or 1", "hypertension")} ELSE {})
    \cup (IF "heart_disease" \in DOMAIN d /\ d.heart_disease # 0
              /\ d.heart_disease # 1
             THEN {Msg("Heart disease must be 0 or 1", "heart_disease")} ELSE {})

\* C2: validate is not fail-fast: the error list holds one message for every
\* violated constraint of the record (so age=15, bmi=5, glucose=10 yields the
\* three range messages in one call).
C2_AllViolationsReported ==
    validation # None =>
        LET errors == Val(validation).errors
            want == ViolatedConstraints(Val(patient_data))
        IN  /\ want \subseteq Elems(errors)
            /\ Len(errors) = Cardinality(want)

\* C2 witness: a record with age 15, bmi 5 and glucose 10 was validated and
\* the three range messages are in the list
C2_Witness ==
    /\ validation # None
    /\ DOMAIN Val(patient_data) = AllFields
    /\ Val(patient_data).age = 150
    /\ Val(patient_data).bmi = 50
    /\ Val(patient_data).avg_glucose_level = 100
    /\ {"age", "bmi", "avg_glucose_level"}
          \subseteq {m.field : m \in Elems(Val(validation).errors)}

\* the record has every required field and every checked value is in range
AllValid(d) ==
    /\ AllFields \subseteq DOMAIN d
    /\ 180 <= d.age /\ d.age <= 1200
    /\ 100 <= d.bmi /\ d.bmi <= 700
    /\ 500 <= d.avg_glucose_level /\ d.avg_glucose_level <= 4000
    /\ d.gender \in {"Male", "Female"}
    /\ d.ever_married \in {"Yes", "No"}
    /\ d.hypertension \in {0, 1}
    /\ d.heart_disease \in {0, 1}

\* C3: validate returns (True, []) exactly when all required fields are
\* present and every checked value is in its inclusive range or set; in
\* every other case it returns False with a non-empty list.
C3_ValidIffAllConstraintsHold ==
    validation # None =>
        /\ Val(validation).ok <=> AllValid(Val(patient_data))
        /\ Val(validation).ok <=> (Val(validation).errors = <<>>)

\* C3 witness: a complete record with age, bmi and glucose on the bounds of
\* their ranges was accepted
C3_Witness ==
    /\ validation = Some([ok |-> TRUE, errors |-> <<>>])
    /\ Val(patient_data).age = 180
    /\ Val(patient_data).bmi = 700
    /\ Val(patient_data).avg_glucose_level = 4000

\* ------------------------------------------------------------------------
\* SpecFeatures: the three feature-engineering paths applied to a record
\* ------------------------------------------------------------------------

EngineerFeatures ==
    /\ patient_data # None
    /\ features = None
    /\ features' = Some(engineer_features(Val(patient_data)))
    /\ UNCHANGED <<probability, risk_level, patient_data, validation,
                   features_df, features_27, feature_importance>>
    /\ UNCHANGED <<features_valid, modifiable_shown>>
    /\ UNCHANGED sessionVars

CreateFeatureDataframe ==
    /\ patient_data # None
    /\ features_df = None
    /\ features_df' = Some(create_feature_dataframe(Val(patient_data)))
    /\ UNCHANGED <<probability, risk_level, patient_data, validation, features,
                   features_27, feature_importance>>
    /\ UNCHANGED <<features_valid, modifiable_shown>>
    /\ UNCHANGED sessionVars

EngineerFeatures27 ==
    /\ patient_data # None
    /\ features_27 = None
    /\ features_27' = Some(fe_engineer_features(Val(patient_data)))
    /\ UNCHANGED <<probability, risk_level, patient_data, validation, features,
                   features_df, feature_importance>>
    /\ UNCHANGED <<features_valid, modifiable_shown>>
    /\ UNCHANGED sessionVars

\* the results page shows the record's modifiable risk factor count
DisplayRiskAnalysis ==
    /\ patient_data # None
    /\ modifiable_shown = None
    /\ modifiable_shown' = Some(modifiable_count(Val(patient_data)))
    /\ UNCHANGED <<probability, risk_level, patient_data, validation, features,
                   features_df, features_27, feature_importance, features_valid>>
    /\ UNCHANGED sessionVars

InitFeatures ==
    /\ probability = 0
    /\ risk_level = None
    /\ patient_data \in {Some(d) : d \in FeatureRecords}
    /\ validation = None
    /\ features = None
    /\ features_df = None
    /\ features_27 = None
    /\ feature_importance = None
    /\ features_valid = None
    /\ modifiable_shown = None
    /\ SessionIdle

NextFeatures ==
    \/ EngineerFeatures
    \/ CreateFeatureDataframe
    \/ EngineerFeatures27
    \/ DisplayRiskAnalysis

SpecFeatures == InitFeatures /\ [][NextFeatures]_vars

\* ------------------------------------------------------------------------
\* SpecImportance: _get_feature_importance applied to an accepted record
\* ------------------------------------------------------------------------

GetFeatureImportance ==
    /\ patient_data # None
    /\ feature_importance = None
    /\ LET df == create_feature_dataframe(Val(patient_data))
       IN  feature_importance' =
               Some(_get_feature_importance(RowDict(df), Val(patient_data)))
    /\ UNCHANGED <<probability, risk_level, patient_data, validation, features,
                   features_df, features_27>>
    /\ UNCHANGED <<features_valid, modifiable_shown>>
    /\ UNCHANGED sessionVars

InitImportance ==
    /\ probability = 0
    /\ risk_level = None
    /\ patient_data \in {Some(d) : d \in ImportanceRecords}
    /\ validation = None
    /\ features = None
    /\ features_df = None
    /\ features_27 = None
    /\ feature_importance = None
    /\ features_valid = None
    /\ modifiable_shown = None
    /\ SessionIdle

NextImportance == GetFeatureImportance

SpecImportance == InitImportance /\ [][NextImportance]_vars

\* ------------------------------------------------------------------------
\* Claims about the feature engineers and the importance heuristic
\* ------------------------------------------------------------------------

\* the paths that have emitted a vector, each with its name table
EmittedPaths ==
    (IF features # None
        THEN {[names |-> feature_names, row |-> Val(features)]} ELSE {})
    \cup (IF features_df # None
        THEN {[names |-> Val(features_df).columns, row |-> Val(features_df).row]}
        ELSE {})
    \cup (IF features_27 # None /\ Val(features_27) # "ValueError"
        THEN {[names |-> fe_feature_names, row |-> Val(features_27)]} ELSE {})

\* a field of the record in tenths; the emitted value when the record lacks it
FieldOf(d, path, field) ==
    IF field \in DOMAIN d THEN d[field] * 10
    ELSE ValueAt(path.names, path.row, field)

\* C5: in every feature-engineering path diabetic = 1 iff avg_glucose_level
\* > 125, elderly = 1 iff age >= 65, obese = 1 iff bmi >= 30 (125 is not
\* diabetic, 65 is elderly, 30 is obese).  The indicators are read off the
\* emitted age_high_risk, age_diabetes, bmi_diabetes and age_obesity.
C5_IndicatorThresholds ==
    \A path \in EmittedPaths :
        LET d == Val(patient_data)
            at(name) == ValueAt(path.names, path.row, name)
            age == FieldOf(d, path, "age")
            glucose == FieldOf(d, path, "avg_glucose_level")
            bmi == FieldOf(d, path, "bmi")
        IN  /\ at("age_high_risk") = (IF age >= 6500 THEN 100 ELSE 0)
            /\ at("age_diabetes") = (IF glucose > 12500 THEN age ELSE 0)
            /\ at("bmi_diabetes") = (IF glucose > 12500 THEN bmi ELSE 0)
            /\ at("age_obesity") = (IF bmi >= 3000 THEN age ELSE 0)

\* C5 witness: all three paths have run on a record with age 65, glucose 125
\* and bmi 30: elderly and obese, not diabetic
C5_Witness ==
    /\ Cardinality(EmittedPaths) = 3
    /\ DOMAIN Val(patient_data) = AllFields
    /\ Val(patient_data).age = 650
    /\ Val(patient_data).avg_glucose_level = 1250
    /\ Val(patient_data).bmi = 300
    /\ \A path \in EmittedPaths :
          /\ ValueAt(path.names, path.row, "age_high_risk") = 100
          /\ ValueAt(path.names, path.row, "age_diabetes") = 0
          /\ ValueAt(path.names, path.row, "age_obesity") = 6500

\* the indicators as the claim defines them, on the record's fields
DiabeticOf(d) == IF Get(d, "avg_glucose_level", 1000) > 1250 THEN 1 ELSE 0
ObeseOf(d) == IF Get(d, "bmi", 250) >= 300 THEN 1 ELSE 0

\* C6: for every record with hypertension and heart_disease in {0,1},
\* cv_risk_count = hypertension + heart_disease + diabetic + obese and
\* modifiable_risk_count = hypertension + diabetic + obese, hence
\* modifiable = cv - heart_disease, 0 <= modifiable <= 3, 0 <= cv <= 4; for
\* hypertension=1, bmi=32, glucose=150 modifiable_risk_count is 3.
C6_RiskCounts ==
    \A path \in EmittedPaths :
        LET d == Val(patient_data)
            h == Get(d, "hypertension", 0)
            hd == Get(d, "heart_disease", 0)
            cv == ValueAt(path.names, path.row, "cv_risk_count")
            modifiable == ValueAt(path.names, path.row, "modifiable_risk_count")
        IN  /\ cv = 100 * (h + hd + DiabeticOf(d) + ObeseOf(d))
            /\ modifiable = 100 * (h + DiabeticOf(d) + ObeseOf(d))
            /\ modifiable = cv - 100 * hd
            /\ 0 <= modifiable /\ modifiable <= 300
            /\ 0 <= cv /\ cv <= 400
            /\ (h = 1 /\ Get(d, "bmi", 250) = 320
                      /\ Get(d, "avg_glucose_level", 1000) = 1500)
                  => modifiable = 300

\* C6 witness: all three paths have run on hypertension=1, heart_disease=1,
\* bmi=32, glucose=150 and emitted modifiable_risk_count 3, cv_risk_count 4
C6_Witness ==
    /\ Cardinality(EmittedPaths) = 3
    /\ DOMAIN Val(patient_data) = AllFields
    /\ Val(patient_data).hypertension = 1
    /\ Val(patient_data).heart_disease = 1
    /\ Val(patient_data).bmi = 320
    /\ Val(patient_data).avg_glucose_level = 1500
    /\ \A path \in EmittedPaths :
          /\ ValueAt(path.names, path.row, "modifiable_risk_count") = 300
          /\ ValueAt(path.names, path.row, "cv_risk_count") = 400

\* C8: for every valid record the feature_importance weights are all
\* non-negative and sum to 1: each is its raw weight (age = min(age/100,
\* 0.35), glucose = min(glucose/200, 0.25), ...) divided by the total of the
\* raw weights.  Weights are exact fractions num/den.
C8_ImportanceNormalised ==
    feature_importance # None =>
        LET w == Val(feature_importance)
            d == Val(patient_data)
            den == w["age"].den
            nums == [i \in 1..Len(importance_keys) |-> w[importance_keys[i]].num]
        IN  /\ DOMAIN w = Elems(importance_keys)
            /\ den > 0
            /\ \A k \in DOMAIN w : w[k].den = den /\ w[k].num >= 0
            /\ SumSeq(nums) = den
            /\ w["age"].num = Min(2 * d.age, 700)
            /\ w["avg_glucose_level"].num = Min(d.avg_glucose_level, 500)

\* C8 witness: the weights of an 18-year-old smoker (age weight 0.18, below
\* its cap) have been computed
C8_Witness ==
    /\ feature_importance # None
    /\ Val(patient_data).age = 180
    /\ Val(patient_data).smoking_status = "currently_smokes"
    /\ Val(feature_importance)["age"].num = 360
    /\ Val(feature_importance)["smoking_status"].num = 300

\* ------------------------------------------------------------------------
\* InputValidator.validate_patient_data
\* ------------------------------------------------------------------------

\* one pass of the loop over validation_rules
RuleError(data, field, min_val, max_val) ==
    IF field \in DOMAIN data /\ ~(min_val <= data[field] /\ data[field] <= max_val)
       THEN <<Msg("must be between", field)>>
       ELSE <<>>

\* a validator that reports nothing
validate_patient_data_accept_all(data) ==
    [ok |-> TRUE, errors |-> <<>>]

validate_patient_data(data) ==
    LET errors ==
            RuleError(data, "age", 180, 1200)
            \o RuleError(data, "bmi", 100, 700)
            \o RuleError(data, "avg_glucose_level", 500, 4000)
            \o (IF Get(data, "age", 0) < 180
                   THEN <<Msg("Age must be 18 or older", "age")>> ELSE <<>>)
            \o (IF Get(data, "bmi", 0) < 120 /\ Get(data, "age", 0) > 180
                   THEN <<Msg("BMI seems unrealistically low for an adult", "bmi")>>
                   ELSE <<>>)
    IN  [ok |-> Len(errors) = 0, errors |-> errors]

\* ------------------------------------------------------------------------
\* ModelHandler.get_model_info and predict_stroke_risk
\* ------------------------------------------------------------------------

\* the loaded scoring artifact (opaque to the handler)
Artifact == <<"stroke_prediction_calibrated.pkl">>

\* get_model_info() of a handler whose model is loaded
get_model_info ==
    [status |-> "Model loaded successfully",
     features_count |-> Len(feature_names),
     feature_engineer |-> "FixedFeatureEngineer"]

\* predict_stroke_risk from the answer of predict_proba on: the stroke
\* probability is the second column of the first row
predict_stroke_risk(d, probabilities) ==
    LET features_df_ == create_feature_dataframe(d)
        probability_ == probabilities[1][2]
        risk_level_ == _classify_risk(probability_)
        feature_importance_ == _get_feature_importance(RowDict(features_df_), d)
    IN  <<probability_, risk_level_, feature_importance_>>

\* ------------------------------------------------------------------------
\* Spec: one Streamlit session after another over the cached ModelHandler
\* ------------------------------------------------------------------------

\* how many distinct inputs the scoring artifact is asked about
MaxScored == 2

Pages == {"app", "home", "risk_assessment", "results", "about"}

\* what the widgets of the assessment form can hold (age in years, bmi in
\* tenths, glucose in mg/dL)
FormInputs ==
    [age : {18, 70},
     gender : {"Male"},
     marital_status : {"Married"},
     bmi : {110, 320},
     glucose_level : {150},
     hypertension : {"Yes"},
     heart_disease : {"No"},
     smoking_status : {"Never smoked", "Currently smokes"},
     work_type : {"Private"},
     residence_type : {"Urban"}]

\* smoking_status.lower().replace(' ', '_')
LowerUnderscore(s) ==
    CASE s = "Never smoked" -> "never_smoked"
      [] s = "Formerly smoked" -> "formerly_smoked"
      [] s = "Currently smokes" -> "currently_smokes"
      [] s = "Unknown" -> "unknown"

\* the dictionary patient_data the assessment page builds from the form
BuildPatientData(form) ==
    [age |-> form.age * 10,
     gender |-> form.gender,
     hypertension |-> IF form.hypertension = "Yes" THEN 1 ELSE 0,
     heart_disease |-> IF form.heart_disease = "Yes" THEN 1 ELSE 0,
     ever_married |-> IF form.marital_status = "Married" THEN "Yes" ELSE "No",
     work_type |-> form.work_type,
     Residence_type |-> form.residence_type,
     avg_glucose_level |-> form.glucose_level * 10,
     bmi |-> form.bmi,
     smoking_status |-> LowerUnderscore(form.smoking_status)]

\* the page's checks before it builds patient_data
BasicInputOk(form) ==
    /\ ~(form.age < 18 \/ form.age > 100)
    /\ ~(form.bmi < 100 \/ form.bmi > 500)
    /\ ~(form.glucose_level < 50 \/ form.glucose_level > 400)

\* the answers predict_proba can give: a row of class probabilities, or an
\* exception (None)
Answers ==
    {None} \cup {Some(<<ProbScale - p, p>>) : p \in {999999, 6000000}}

\* the results dictionary the page stores
ResultsOf(result) ==
    [probability |-> result[1],
     probability_percent |-> result[1] * 100,
     risk_level |-> result[2],
     feature_importance |-> result[3],
     success |-> TRUE]

\* load_model() of the assessment page: the first call in the process
\* builds the ModelHandler (whose model is None when joblib.load failed) and
\* sets model_loaded; later calls are served from the cache
LoadModel(ss_in, ss_out) ==
    IF handler_cached
       THEN /\ ss_out = ss_in
            /\ UNCHANGED <<model, handler_cached>>
       ELSE /\ handler_cached' = TRUE
            /\ model' \in {None, Artifact}
            /\ ss_out = [ss_in EXCEPT !.model_loaded = TRUE]

\* a script run that does not reach predict_stroke_risk
NoPrediction ==
    /\ submitted' = None
    /\ model_input' = None
    /\ outcome' = "none"
    /\ repeat_call' = FALSE
    /\ UNCHANGED <<scored, returned>>

\* the page's except branch: the error is shown, nothing is stored
OnPredictionError_partial(d) ==
    session_state' = [session_state EXCEPT !.patient_data = Some(d)]

OnPredictionError(d) ==
    session_state' = session_state

\* a page that stores the results and keeps the patient record it held
StoreResults_results_only(d, result) ==
    session_state' = [session_state EXCEPT
                         !.prediction_results = Some(ResultsOf(result))]

\* the page stores results and patient_data after predict returned
StoreResults(d, result) ==
    session_state' = [session_state EXCEPT
                         !.prediction_results = Some(ResultsOf(result)),
                         !.patient_data = Some(d)]

\* the history of predict_stroke_risk: for each record, the first result it
\* returned
Record(d, result) ==
    IF d \notin DOMAIN returned THEN (d :> result) @@ returned ELSE returned

\* the call repeats an earlier one after a prediction for another record
RepeatsAfterOther(d) ==
    /\ d \in DOMAIN returned
    /\ session_state.patient_data # None
    /\ Val(session_state.patient_data) # d

\* the try block of the assessment page around predict_stroke_risk
Predict(d) ==
    IF model = None
       THEN \* "Model not loaded properly"
            /\ outcome' = "raised"
            /\ model_input' = None
            /\ repeat_call' = FALSE
            /\ OnPredictionError(d)
            /\ UNCHANGED <<scored, returned>>
       ELSE LET df == create_feature_dataframe(d)
            IN  /\ model_input' = Some(df)
                /\ \E answer \in Answers :
                      /\ df \in DOMAIN scored => answer = scored[df]
                      /\ df \notin DOMAIN scored =>
                            Cardinality(DOMAIN scored) < MaxScored
                      /\ scored' = (df :> answer) @@ scored
                      /\ IF answer = None
                            THEN /\ outcome' = "raised"
                                 /\ repeat_call' = FALSE
                                 /\ OnPredictionError(d)
                                 /\ UNCHANGED returned
                            ELSE LET result == predict_stroke_risk(d, answer)
                                 IN  /\ outcome' = "returned"
                                     /\ repeat_call' = RepeatsAfterOther(d)
                                     /\ StoreResults(d, result)
                                     /\ returned' = Record(d, result)

\* "Analyze Stroke Risk": the form is submitted on the assessment page
Submit ==
    /\ page = "risk_assessment"
    /\ handler_cached
    /\ \E form \in FormInputs :
          LET d == BuildPatientData(form)
          IN  /\ submitted' = Some(d)
              /\ IF /\ BasicInputOk(form)
                    /\ validate_patient_data(d).ok
                    /\ validate_prediction_inputs(d).ok
                    THEN Predict(d)
                    ELSE /\ model_input' = None
                         /\ outcome' = "none"
                         /\ repeat_call' = FALSE
                         /\ UNCHANGED <<scored, returned, session_state>>
    /\ UNCHANGED <<page, model, handler_cached>>
    /\ UNCHANGED coreVars
    /\ rendered' = Render(page', session_state', outcome' = "none")

\* the browser opens a page through the page navigation
OpenPage ==
    /\ \E p \in Pages :
          /\ page' = p
          /\ IF p = "risk_assessment"
                THEN LoadModel(session_state, session_state')
                ELSE IF p = "app"
                THEN /\ session_state' = session_init(session_state)
                     /\ UNCHANGED <<model, handler_cached>>
                ELSE UNCHANGED <<session_state, model, handler_cached>>
    /\ NoPrediction
    /\ UNCHANGED coreVars
    /\ rendered' = Render(page', session_state', FALSE)

\* the two buttons without their test of prediction_results
ViewResults_unguarded ==
    /\ page = "app"
    /\ page' = "results"
    /\ NoPrediction
    /\ UNCHANGED <<session_state, model, handler_cached>>
    /\ UNCHANGED coreVars
    /\ rendered' = Render(page', session_state', FALSE)

\* sidebar "Results" and "View Last Results" of the main page
ViewResults ==
    /\ page = "app"
    /\ page' = IF session_state.prediction_results # None THEN "results" ELSE page
    /\ NoPrediction
    /\ UNCHANGED <<session_state, model, handler_cached>>
    /\ UNCHANGED coreVars
    /\ rendered' = Render(page', session_state', FALSE)

\* "View Detailed Results" of the assessment page
ViewDetailedResults ==
    /\ page = "risk_assessment"
    /\ session_state.prediction_results # None
    /\ page' = "results"
    /\ NoPrediction
    /\ UNCHANGED <<session_state, model, handler_cached>>
    /\ UNCHANGED coreVars
    /\ rendered' = Render(page', session_state', FALSE)

\* "New Assessment" of the main page
NewAssessmentApp ==
    /\ page = "app"
    /\ page' = "risk_assessment"
    /\ LoadModel([session_state EXCEPT !.prediction_results = None,
                                       !.patient_data = None],
                 session_state')
    /\ NoPrediction
    /\ UNCHANGED coreVars
    /\ rendered' = Render(page', session_state', FALSE)

\* "New Assessment" of the assessment page
NewAssessmentPage ==
    /\ page = "risk_assessment"
    /\ session_state.prediction_results # None
    /\ session_state' = [session_state EXCEPT !.prediction_results = None,
                                              !.patient_data = None]
    /\ NoPrediction
    /\ UNCHANGED <<page, model, handler_cached>>
    /\ UNCHANGED coreVars
    /\ rendered' = Render(page', session_state', FALSE)

\* "New Assessment" of the results page
NewAssessmentResults ==
    /\ page = "results"
    /\ session_state.prediction_results # None
    /\ page' = "risk_assessment"
    /\ LoadModel([session_state EXCEPT !.prediction_results = None,
                                       !.patient_data = None],
                 session_state')
    /\ NoPrediction
    /\ UNCHANGED coreVars
    /\ rendered' = Render(page', session_state', FALSE)

\* "Clear Session State" of the main page's debug panel
ClearSessionState ==
    /\ page = "app"
    /\ session_state' = session_init([prediction_results |-> None,
                                      patient_data |-> None,
                                      model_loaded |-> FALSE])
    /\ NoPrediction
    /\ UNCHANGED <<page, model, handler_cached>>
    /\ UNCHANGED coreVars
    /\ rendered' = Render(page', session_state', FALSE)

\* a new browser session starts on the main page; app.py initialises the
\* three session variables, the resource cache is kept
NewSession ==
    /\ page' = "app"
    /\ session_state' = session_init(<<>>)
    /\ NoPrediction
    /\ UNCHANGED <<model, handler_cached>>
    /\ UNCHANGED coreVars
    /\ rendered' = Render(page', session_state', FALSE)

Init ==
    /\ CoreIdle
    /\ SessionIdle

Next ==
    \/ OpenPage
    \/ Submit
    \/ ViewResults
    \/ ViewDetailedResults
    \/ NewAssessmentApp
    \/ NewAssessmentPage
    \/ NewAssessmentResults
    \/ ClearSessionState
    \/ NewSession

Spec == Init /\ [][Next]_vars

\* ------------------------------------------------------------------------
\* Claims about predict_stroke_risk in the session
\* ------------------------------------------------------------------------

\* C4: the feature vector predict passes to the scoring model has exactly as
\* many entries as the engineer's feature-name table (features_count of
\* get_model_info); if the two diverge an error is raised instead of a
\* prediction being served.
C4_VectorMatchesFeatureCount ==
    model_input # None =>
        \/ Len(Val(model_input).row) = get_model_info.features_count
        \/ outcome = "raised"

\* C9: predict is deterministic: a call with a record returns the
\* probability, tier and feature_importance that the first call with that
\* record returned, whatever was predicted in between.
C9_PredictDeterministic ==
    outcome = "returned" =>
        LET d == Val(session_state.patient_data)
            r == Val(session_state.prediction_results)
        IN  /\ d \in DOMAIN returned
            /\ <<r.probability, r.risk_level, r.feature_importance>>
                  = returned[d]

\* C9 witness: a record has been predicted again, successfully, while the
\* session held the result of a different record
C9_Witness ==
    /\ outcome = "returned"
    /\ repeat_call
    /\ Cardinality(DOMAIN returned) >= 2

\* C10: if the model is not loaded or predict_proba raises,
\* predict_stroke_risk raises and returns no value, and the failed attempt
\* leaves prediction_results and patient_data of the session as they were.
C10_FailedPredictNoUpdate ==
    [][/\ (outcome' = "returned") =>
             /\ model' # None
             /\ scored'[Val(model_input')] # None
       /\ (outcome' = "raised") =>
             /\ model' = None \/ scored'[Val(model_input')] = None
             /\ returned' = returned
             /\ session_state'.prediction_results = session_state.prediction_results
             /\ session_state'.patient_data = session_state.patient_data]_vars

\* C10 witness: predict_proba raised for a submitted record while the
\* session held the result of an earlier assessment
C10_Witness ==
    /\ outcome = "raised"
    /\ model # None
    /\ session_state.prediction_results # None
    /\ Val(session_state.patient_data) # Val(submitted)

\* ------------------------------------------------------------------------
\* Claims about the assessment flow around validate and predict
\* ------------------------------------------------------------------------

\* the record breaks no rule of InputValidator.validate_patient_data
PassesInputValidator(d) ==
    /\ 180 <= d.age /\ d.age <= 1200
    /\ 100 <= d.bmi /\ d.bmi <= 700
    /\ 500 <= d.avg_glucose_level /\ d.avg_glucose_level <= 4000
    /\ ~(d.bmi < 120 /\ d.age > 180)

\* C11: in the assessment flow predict_stroke_risk is invoked for a submitted
\* record only after both validators returned no errors for that record;
\* when InputValidator.validate_patient_data or validate_prediction_inputs
\* rejects the record, predict is not called and the session state is not
\* changed.
C11_PredictOnlyAfterValidation ==
    [][/\ (outcome' # "none") =>
             /\ submitted' # None
             /\ PassesInputValidator(Val(submitted'))
             /\ AllValid(Val(submitted'))
       /\ (submitted' # None
              /\ ~(PassesInputValidator(Val(submitted'))
                     /\ AllValid(Val(submitted')))) =>
             /\ outcome' = "none"
             /\ model_input' = None
             /\ scored' = scored
             /\ returned' = returned
             /\ session_state' = session_state]_vars

\* C11 witness: a record InputValidator rejects (bmi 11 at age 70) was
\* submitted while the session held an earlier result; predict was not called
C11_Witness ==
    /\ submitted # None
    /\ Val(submitted).bmi = 110
    /\ Val(submitted).age = 700
    /\ outcome = "none"
    /\ session_state.prediction_results # None

\* ------------------------------------------------------------------------
\* Claims about the emitted features
\* ------------------------------------------------------------------------

C13_InteractionFormulas ==
    \A path \in EmittedPaths :
        LET d == Val(patient_data)
            at(name) == ValueAt(path.names, path.row, name)
            age == FieldOf(d, path, "age")
            glucose == FieldOf(d, path, "avg_glucose_level")
            bmi == FieldOf(d, path, "bmi")
            hypertension == Get(d, "hypertension", 0)
            heart_disease == Get(d, "heart_disease", 0)
            male == IF Get(d, "gender", "Male") = "Male" THEN 1 ELSE 0
            female == IF Get(d, "gender", "Male") = "Female" THEN 1 ELSE 0
            elderly == IF age >= 6500 THEN 1 ELSE 0
            diabetic == IF glucose > 12500 THEN 1 ELSE 0
            obese == IF bmi >= 3000 THEN 1 ELSE 0
        IN  /\ at("age_decade") * 10 = age
            /\ at("age_high_risk") = 100 * elderly
            /\ at("hypertension_elderly") = 100 * hypertension * elderly
            /\ at("female_elderly") = 100 * female * elderly
            /\ at("male_age_interaction") = male * age
            /\ at("age_hypertension") = age * hypertension
            /\ at("bmi_hypertension") = bmi * hypertension
            /\ at("glucose_heart_disease") = glucose * heart_disease
            /\ at("age_hypertension_diabetes") = age * hypertension * diabetic
            /\ at("bmi_glucose") * 100 = bmi * glucose
            /\ at("age_obesity") = age * obese
            /\ at("bmi_diabetes") = bmi * diabetic
            /\ at("age_diabetes") = age * diabetic
            /\ (hypertension = 0) =>
                  /\ at("hypertension_elderly") = 0
                  /\ at("age_hypertension") = 0
                  /\ at("bmi_hypertension") = 0
                  /\ at("age_hypertension_diabetes") = 0
            /\ (heart_disease = 0) => at("glucose_heart_disease") = 0

\* C13 witness: all three paths have run on a 77-year-old man with
\* hypertension, bmi 29.9 and glucose 125.1: bmi_glucose is 3740.49, the
\* triple interaction is 77 and age_obesity is 0
C13_Witness ==
    /\ Cardinality(EmittedPaths) = 3
    /\ DOMAIN Val(patient_data) = AllFields
    /\ Val(patient_data).age = 770
    /\ Val(patient_data).gender = "Male"
    /\ Val(patient_data).hypertension = 1
    /\ Val(patient_data).bmi = 299
    /\ Val(patient_data).avg_glucose_level = 1251
    /\ \A path \in EmittedPaths :
          /\ ValueAt(path.names, path.row, "bmi_glucose") = 374049
          /\ ValueAt(path.names, path.row, "age_hypertension_diabetes") = 7700
          /\ ValueAt(path.names, path.row, "male_age_interaction") = 7700
          /\ ValueAt(path.names, path.row, "age_obesity") = 0

\* ------------------------------------------------------------------------
\* SpecVector: validate, then the exact engineer, then validate_features
\* ------------------------------------------------------------------------

\* records on the bounds of the accepted ranges and just outside them
VectorRecords ==
    [age : {170, 180, 650, 1200},
     gender : {"Male", "Female"},
     hypertension : {0, 1},
     heart_disease : {0, 1},
     ever_married : {"Yes", "No"},
     work_type : {"Private"},
     Residence_type : {"Urban"},
     avg_glucose_level : {500, 1251, 4000, 4001},
     bmi : {100, 300, 700},
     smoking_status : {"never_smoked"}]

ValidateFeatures ==
    /\ features # None
    /\ features_valid = None
    /\ features_valid' = Some(validate_features(Val(features)))
    /\ UNCHANGED <<probability, risk_level, patient_data, validation, features,
                   features_df, features_27, feature_importance,
                   modifiable_shown>>
    /\ UNCHANGED sessionVars

InitVector ==
    /\ probability = 0
    /\ risk_level = None
    /\ patient_data \in {Some(d) : d \in VectorRecords}
    /\ validation = None
    /\ features = None
    /\ features_df = None
    /\ features_27 = None
    /\ feature_importance = None
    /\ features_valid = None
    /\ modifiable_shown = None
    /\ SessionIdle

NextVector ==
    \/ ValidatePredictionInputs
    \/ EngineerFeatures
    \/ CreateFeatureDataframe
    \/ ValidateFeatures

SpecVector == InitVector /\ [][NextVector]_vars

\* the interval, in hundredths, that the accepted ranges (age 18..120, bmi
\* 10..70, glucose 50..400, flags 0/1) imply for a named feature
ImpliedBounds(name) ==
    CASE name = "age" -> <<1800, 12000>>
      [] name = "bmi" -> <<1000, 7000>>
      [] name = "avg_glucose_level" -> <<5000, 40000>>
      [] name = "age_decade" -> <<180, 1200>>
      [] name = "bmi_glucose" -> <<50000, 2800000>>
      [] name \in {"male_age_interaction", "age_hypertension",
                   "age_hypertension_diabetes", "age_obesity", "age_diabetes"}
            -> <<0, 12000>>
      [] name \in {"bmi_hypertension", "bmi_diabetes"} -> <<0, 7000>>
      [] name = "glucose_heart_disease" -> <<0, 40000>>
      [] name = "cv_risk_count" -> <<0, 400>>
      [] name = "modifiable_risk_count" -> <<0, 300>>
      [] name = "work_stress_level" -> <<200, 200>>
      [] name = "high_stress_work" -> <<0, 0>>
      [] name = "gender_Other" -> <<0, 0>>
      [] OTHER -> <<0, 100>>

\* C14: for every record validate accepts, every entry of the emitted
\* feature vector is a finite number within the bounds the validated input
\* ranges imply, and validate_features accepts the vector engineer_features
\* produced.
C14_FeaturesFiniteAndBounded ==
    (validation # None /\ Val(validation).ok) =>
        /\ \A path \in EmittedPaths :
              \A i \in 1..Len(path.names) :
                 /\ ImpliedBounds(path.names[i])[1] <= path.row[i]
                 /\ path.row[i] <= ImpliedBounds(path.names[i])[2]
        /\ features # None => Len(Val(features)) = Len(feature_names)
        /\ features_valid # None => Val(features_valid)

\* C14 witness: a record on the upper bounds (age 120, bmi 70, glucose 400)
\* was accepted, both exact paths emitted its vector with bmi_glucose 28000,
\* and validate_features accepted the list
C14_Witness ==
    /\ validation # None
    /\ Val(validation).ok
    /\ Val(patient_data).age = 1200
    /\ Val(patient_data).bmi = 700
    /\ Val(patient_data).avg_glucose_level = 4000
    /\ Cardinality(EmittedPaths) = 2
    /\ features_valid = Some(TRUE)
    /\ ValueAt(feature_names, Val(features), "bmi_glucose") = 2800000

\* ------------------------------------------------------------------------
\* Claims about the effects and the message order of validate
\* ------------------------------------------------------------------------

\* C15: validate is side-effect-free: a call to validate_prediction_inputs
\* leaves the patient record, the handler (model, cached handler, scoring
\* artifact) and the session state unchanged, whether the record is accepted
\* or rejected; it only produces its return value.
C15_ValidateSideEffectFree ==
    [][(validation' # validation) =>
          /\ patient_data' = patient_data
          /\ model' = model
          /\ handler_cached' = handler_cached
          /\ scored' = scored
          /\ session_state' = session_state
          /\ validation' = Some(validate_prediction_inputs(Val(patient_data)))]_vars

\* C15 witness: a record lacking bmi was rejected and still lacks bmi
C15_Witness ==
    /\ validation # None
    /\ ~Val(validation).ok
    /\ "bmi" \notin DOMAIN Val(patient_data)
    /\ session_state = NoSession

\* the position of a message's check in validate: the missing-field loop is
\* check 0
CheckRank(m) ==
    CASE m.text = "Missing required field" -> 0
      [] m.text = "Age must be between 18 and 120 years" -> 1
      [] m.text = "BMI must be between 10.0 and 70.0" -> 2
      [] m.text = "Glucose level must be between 50.0 and 400.0 mg/dL" -> 3
      [] m.text = "Gender must be 'Male' or 'Female'" -> 4
      [] m.text = "Ever married must be 'Yes' or 'No'" -> 5
      [] m.text = "Hypertension must be 0 or 1" -> 6
      [] m.text = "Heart disease must be 0 or 1" -> 7

\* C16: the messages of validate's error list appear in the order of the
\* checks: all missing-field messages first, then age range, bmi range,
\* glucose range, gender, ever_married, hypertension, heart_disease; a later
\* check is still performed when an earlier one failed.
C16_ErrorOrder ==
    validation # None =>
        LET errors == Val(validation).errors
        IN  /\ \A i, j \in 1..Len(errors) :
                  i < j =>
                     \/ CheckRank(errors[i]) < CheckRank(errors[j])
                     \/ CheckRank(errors[i]) = 0 /\ CheckRank(errors[j]) = 0
            /\ ViolatedConstraints(Val(patient_data)) \subseteq Elems(errors)

\* C16 witness: a record lacking gender, with age 15, bmi 5 and
\* heart_disease 2, produced the four messages in check order
C16_Witness ==
    /\ validation # None
    /\ Len(Val(validation).errors) = 4
    /\ Val(validation).errors[1] = Msg("Missing required field", "gender")
    /\ Val(validation).errors[2].field = "age"
    /\ Val(validation).errors[3].field = "bmi"
    /\ Val(validation).errors[4].field = "heart_disease"

\* ------------------------------------------------------------------------
\* Claims about what the session shows
\* ------------------------------------------------------------------------

\* C17: the session flag model_loaded (sidebar 'Model Loaded' / 'Model Not
\* Loaded') is True exactly when the scoring artifact is loaded and usable
\* by predict: it is never True while ModelHandler.model is None, and it is
\* not False while a loaded model serves a prediction of the session.
C17_ModelLoadedFlagAccurate ==
    /\ session_state.model_loaded => model # None
    /\ outcome = "returned" => session_state.model_loaded

\* C18: result content is shown only after a successful assessment: the
\* sidebar 'Results' button and 'View Last Results' switch to the results
\* page only when prediction_results is set; every page shows result content
\* only when prediction_results is set (with probability_percent and
\* risk_level) and shows that stored result; prediction_results is set only
\* by a prediction that returned, and every clear action empties it, so
\* with no successful prediction since the last clear nothing is displayed.
C18_ResultsOnlyAfterSuccess ==
    /\ [](rendered.result # None =>
             /\ session_state.prediction_results # None
             /\ rendered.result = session_state.prediction_results
             /\ {"probability_percent", "risk_level"}
                   \subseteq DOMAIN Val(rendered.result))
    /\ [][(ViewResults /\ page' = "results") =>
             session_state.prediction_results # None]_vars
    /\ [][(/\ session_state'.prediction_results # None
            /\ session_state'.prediction_results
                  # session_state.prediction_results) =>
             outcome' = "returned"]_vars
    /\ [][(ClearSessionState \/ NewSession \/ NewAssessmentApp
             \/ NewAssessmentPage \/ NewAssessmentResults) =>
             /\ session_state'.prediction_results = None
             /\ rendered' = NothingShown]_vars

\* C18 witness: after a returned prediction and a clear, the results page
\* is open with no stored result and shows nothing
C18_Witness ==
    /\ page = "results"
    /\ returned # <<>>
    /\ session_state.prediction_results = None
    /\ rendered = NothingShown

\* C19: after a submission whose prediction fails, the assessment page does
\* not present an earlier result as completed: the 'Risk assessment
\* completed!' banner and 'View Detailed Results' are shown, in a script run
\* that handled a submission, only if the stored prediction_results was
\* produced from the record just submitted.
C19_NoStaleCompletion ==
    (page = "risk_assessment" /\ submitted # None /\ rendered.banner) =>
        /\ outcome = "returned"
        /\ session_state.patient_data = submitted

\* the chart marking that corresponds to a tier
MarkerOfTier(tier) ==
    CASE tier = "Low Risk" -> <<100, 0, 0, 0>>
      [] tier = "Moderate Risk" -> <<0, 100, 0, 0>>
      [] tier = "High Risk" -> <<0, 0, 100, 0>>
      [] tier = "Very High Risk" -> <<0, 0, 0, 100>>

\* C20: in the population comparison chart of the results page the patient
\* is marked in exactly the one category of the stored tier: Low Risk ->
\* index 0, Moderate Risk -> index 1, High Risk -> index 2, Very High Risk
\* -> index 3.
C20_PopulationMarker ==
    rendered.marker # None =>
        Val(rendered.marker)
            = MarkerOfTier(Val(session_state.prediction_results).risk_level)

\* ------------------------------------------------------------------------
\* Claims about the results page count and the session variables
\* ------------------------------------------------------------------------

\* C21: the 'Modifiable Risk Factors n/3' count shown on the results page
\* equals the feature engineer's modifiable_risk_count (hypertension +
\* diabetic + obese) for the same patient record, for every valid record.
C21_ModifiableCountMatches ==
    (modifiable_shown # None /\ AllValid(Val(patient_data))) =>
        \A path \in EmittedPaths :
            ValueAt(path.names, path.row, "modifiable_risk_count")
                = 100 * Val(modifiable_shown)

\* a New Assessment button was pressed
NewAssessment ==
    NewAssessmentApp \/ NewAssessmentPage \/ NewAssessmentResults

\* C22 as stated: every 'New Assessment' action (main page, assessment
\* page, results page) sets prediction_results and patient_data to None and
\* leaves model_loaded unchanged; 'Clear Session State' sets the two to None
\* and model_loaded to False; the start-up initialisation assigns a default
\* only to an absent session variable, so a rerun of the main page never
\* overwrites an existing prediction.
C22_ClearActions ==
    /\ [][NewAssessment =>
             /\ session_state'.prediction_results = None
             /\ session_state'.patient_data = None
             /\ session_state'.model_loaded = session_state.model_loaded]_vars
    /\ [][ClearSessionState => session_state' = NoSession]_vars
    /\ [][(OpenPage /\ page' = "app") => session_state' = session_state]_vars

\* C22 amended: as C22, except that model_loaded may turn True in a New
\* Assessment action that opens the assessment page while no ModelHandler is
\* cached yet (load_model then runs its body); otherwise it is unchanged.
C22_ClearActionsAmended ==
    /\ [][NewAssessment =>
             /\ session_state'.prediction_results = None
             /\ session_state'.patient_data = None
             /\ \/ session_state'.model_loaded = session_state.model_loaded
                \/ /\ ~handler_cached
                   /\ handler_cached'
                   /\ page' = "risk_assessment"
                   /\ session_state'.model_loaded]_vars
    /\ [][ClearSessionState => session_state' = NoSession]_vars
    /\ [][(OpenPage /\ page' = "app") => session_state' = session_state]_vars

\* C22 witness: after a returned prediction a New Assessment action has
\* emptied both variables and model_loaded is still True
C22_Witness ==
    /\ returned # <<>>
    /\ session_state.prediction_results = None
    /\ session_state.patient_data = None
    /\ session_state.model_loaded

\* C23: in every reachable session state prediction_results is set if and
\* only if patient_data is set, and when both are set the stored
\* prediction_results was computed from exactly the stored patient_data: its
\* probability is the artifact's answer for that record's feature frame, its
\* tier and feature_importance are those of that probability and record.
C23_ResultsPairedWithPatient ==
    /\ (session_state.prediction_results # None)
          <=> (session_state.patient_data # None)
    /\ session_state.prediction_results # None =>
          LET d == Val(session_state.patient_data)
              r == Val(session_state.prediction_results)
              df == create_feature_dataframe(d)
          IN  /\ df \in DOMAIN scored
              /\ scored[df] # None
              /\ r.probability = Val(scored[df])[2]
              /\ r.probability_percent = 100 * r.probability
              /\ r.risk_level = _classify_risk(r.probability)
              /\ r.feature_importance = _get_feature_importance(RowDict(df), d)

\* C23 witness: the session holds the result and the record of its second
\* successful assessment, made for a record other than the first
C23_Witness ==
    /\ session_state.prediction_results # None
    /\ session_state.patient_data # None
    /\ outcome = "returned"
    /\ Cardinality(DOMAIN returned) >= 2

\* ------------------------------------------------------------------------
\* Claims relating the feature-engineering paths
\* ------------------------------------------------------------------------

\* the records that differ from d at most in work_type, in the residence
\* type (under either key) or in smoking_status
IgnoredFieldVariants(d) ==
    {[d EXCEPT !.work_type = w] :
        w \in {"Private", "Self-employed", "Govt_job", "Never_worked"}}
    \cup {[d EXCEPT !.Residence_type = r] : r \in {"Urban", "Rural"}}
    \cup {("residence_type" :> r) @@ d : r \in {"Urban", "Rural"}}
    \cup {[d EXCEPT !.smoking_status = st] :
             st \in {"never_smoked", "formerly_smoked", "currently_smokes",
                     "unknown"}}
    \cup {("residence_type" :> "Rural")
             @@ [d EXCEPT !.work_type = "Govt_job", !.Residence_type = "Rural",
                          !.smoking_status = "currently_smokes"]}

C25_EngineersAgree ==
    (features_27 # None /\ features_df # None /\ AllValid(Val(patient_data))) =>
        LET df == Val(features_df)
            list == Val(features_27)
        IN  /\ list # "ValueError"
            /\ Elems(fe_feature_names) = Elems(df.columns)
            /\ \A i \in 1..Len(fe_feature_names) :
                  \A j \in 1..Len(df.columns) :
                     fe_feature_names[i] = df.columns[j] => list[i] = df.row[j]

\* C26: within feature_engineering_exact, engineer_features (list in
\* feature_names order) and create_feature_dataframe (columns in
\* expected_feature_order, built from get_all_features) assign the same
\* value to every feature name both emit, for every patient record,
\* including records that lack fields so that defaults are substituted.
C26_ExactPathsAgree ==
    (features # None /\ features_df # None) =>
        \A i \in 1..Len(feature_names) :
            \A j \in 1..Len(Val(features_df).columns) :
                feature_names[i] = Val(features_df).columns[j]
                    => Val(features)[i] = Val(features_df).row[j]

\* C27: the zero-fill fallback is never taken: every name of feature_names
\* is a key of the feature_mapping engineer_features builds, and every name
\* of expected_feature_order is a key of the dictionary get_all_features
\* returns, for every patient record.
C27_ZeroFillNeverTaken ==
    /\ features # None =>
          Elems(feature_names) \subseteq DOMAIN feature_mapping(Val(patient_data))
    /\ features_df # None =>
          Elems(Val(features_df).columns)
              \subseteq DOMAIN get_all_features(Val(patient_data))

\* C27 witness: both exact paths have emitted the vector of a record that
\* lacks a field, 26 and 27 entries, each name found in its dictionary
C27_Witness ==
    /\ features # None
    /\ features_df # None
    /\ DOMAIN Val(patient_data) # AllFields
    /\ Len(Val(features)) = Len(feature_names)
    /\ Len(Val(features_df).row) = Len(expected_feature_order)
    /\ Elems(feature_names) \subseteq DOMAIN feature_mapping(Val(patient_data))

\* C28: the feature names within one emitted schema are pairwise distinct
\* (names that differ only in case count as distinct): no name occurs twice
\* in feature_names of either engineer module nor in expected_feature_order.
C28_NamesDistinct ==
    \A path \in EmittedPaths :
        \A i, j \in 1..Len(path.names) :
            path.names[i] = path.names[j] => i = j

====
